---- MODULE Spec2Model ----
(***************************************************************************)
(* Model of etl.py: a batch pipeline that reads a song catalog and an      *)
(* event log and writes five tables (songs, artists, users, time,          *)
(* songplays) with Spark, each in "overwrite" mode.                        *)
(*                                                                         *)
(* A DataFrame is a bag (multiset) of rows: Spark gives no row order       *)
(* across files and partitions.  Only the songplays frame is kept as a     *)
(* sequence of partitions, because monotonically_increasing_id() reads     *)
(* the partition index and the position of a row inside its partition.    *)
(*                                                                         *)
(* Values outside TLC's 32-bit integers are kept in two parts:             *)
(*   ts  (epoch milliseconds)  = 1000 * ts.s + ts.ms                       *)
(*   songplay_id               = 2^33 * id.part + id.row                   *)
(* Floats (duration, latitude, longitude) are opaque strings.              *)
(*                                                                         *)
(* The show(1) previews change no state and are left out.  A write either  *)
(* succeeds as one step or raises; what a raising write leaves behind is   *)
(* a choice among the outcomes Spark's non-atomic save modes allow, at     *)
(* the grain of partition directories.  main has no try/except, so any     *)
(* exception ends the run; main may then be invoked again on the same      *)
(* snapshot, as after a completed run.                                     *)
(***************************************************************************)
EXTENDS Integers, Sequences, FiniteSets, Bags, TLC

\* ------------------------------------------------------------ bounds
\* Largest number of raw catalog records in the snapshot.
MaxSongs == 3
\* Largest number of raw log events in the snapshot.
MaxEvents == 2
\* Largest number of invocations of main on the snapshot.
MaxRuns == 2
\* Largest number of partitions of the joined songplays frame.
MaxPartitions == 2

\* ------------------------------------------------------------ values
Null == "NULL"

Ts(sec, millis) == [s |-> sec, ms |-> millis]

\* 2018-11-08 01:20:00 UTC and 2018-12-01 00:00:00 UTC
T1 == Ts(1541640000, 0)
T2 == Ts(1543622400, 0)

SongRec(sid, t, aid, y, an, loc) ==
    [song_id |-> sid, title |-> t, artist_id |-> aid, year |-> y,
     duration |-> "180.5", artist_name |-> an, artist_location |-> loc,
     artist_latitude |-> Null, artist_longitude |-> Null]

\* Candidate raw catalog records (one JSON file per record, so no record is
\* read twice; equal rows arise once columns are projected away):
\*   1: the reference record; 2: same (title, artist_name), other ids and year;
\*   3: record 1 with another artist_location (same song row, other artist row);
\*   4: a title that differs from record 1 only in case.
CatalogRecords ==
    { SongRec("S1", "Test", "AR1", 2000, "Band", ""),
      SongRec("S2", "Test", "AR2", 2001, "Band", ""),
      SongRec("S1", "Test", "AR1", 2000, "Band", "NYC"),
      SongRec("S3", "test", "AR1", 2000, "Band", "") }

Event(uid, lvl, t, sg, ar, sess, pg) ==
    [userId |-> uid, firstName |-> "Ann", lastName |-> "Lee", gender |-> "F",
     level |-> lvl, ts |-> t, song |-> sg, artist |-> ar, sessionId |-> sess,
     location |-> "SF", userAgent |-> "Mozilla", page |-> pg]

\* Candidate raw log events (a log line is a distinct event: no two candidates
\* agree on ts and sessionId):
\*   1: a song play matching catalog records 1, 2, 3;
\*   2: same user and ts as 1, other level and session;
\*   3: a page view (not a song play) of a user seen nowhere else;
\*   4: a song play whose song matches a title but whose artist matches none;
\*   5: a song play matching nothing.
LogEvents ==
    { Event("U1", "free", T1, "Test", "Band", 1, "NextSong"),
      Event("U1", "paid", T1, "Test", "Band", 2, "NextSong"),
      Event("U3", "free", T2, Null, Null, 3, "Home"),
      Event("U2", "free", T2, "Test", "Nobody", 4, "NextSong"),
      Event("U2", "free", T2, "Unknown", "Nobody", 5, "NextSong") }

\* Host time zones (offset from UTC in hours) the job may run under.
TimeZones == {0, -8}

\* ------------------------------------------------------------ bags
RECURSIVE SumCounts(_, _)
SumCounts(B, S) ==
    IF S = {} THEN 0
    ELSE LET x == CHOOSE x \in S : TRUE
         IN  B[x] + SumCounts(B, S \ {x})

\* All frames of at most n distinct rows drawn from S.
FramesUpTo(S, n) == {SetToBag(X) : X \in {Y \in SUBSET S : Cardinality(Y) <= n}}

\* The rows of bag B that are in the set keep.
BagFilter(B, keep) == [x \in DOMAIN B \cap keep |-> B[x]]

\* The bag of f[x] for the rows x of B: DataFrame.select and withColumnRenamed
\* are projections f of every row, and a projection keeps duplicates.
BagMap(B, f) ==
    LET img == {f[x] : x \in DOMAIN B}
    IN  [y \in img |-> SumCounts(B, {x \in DOMAIN B : f[x] = y})]

\* A sequence holding the rows of B, each as often as B holds it.
RECURSIVE BagToSeq(_)
BagToSeq(B) ==
    IF DOMAIN B = {} THEN <<>>
    ELSE LET x == CHOOSE x \in DOMAIN B : TRUE
         IN  <<x>> \o BagToSeq(B (-) SetToBag({x}))

RECURSIVE SeqToBag(_)
SeqToBag(s) ==
    IF s = <<>> THEN EmptyBag
    ELSE SetToBag({Head(s)}) (+) SeqToBag(Tail(s))

\* ------------------------------------------------------------ engine
\* A dropDuplicates() that was left out.
dropDuplicates_omitted(df) == df

\* DataFrame.dropDuplicates(): one copy of every distinct row.
dropDuplicates(df) == SetToBag(BagToSet(df))

\* SQL equality: a comparison with NULL is never true.
SqlEq(a, b) == a # Null /\ b # Null /\ a = b

\* ------------------------------------------------------------ calendar
\* Days since 1970-01-01 of the civil date y-m-d (proleptic Gregorian).
days_from_civil(y, m, d) ==
    LET yy  == IF m <= 2 THEN y - 1 ELSE y
        era == yy \div 400
        yoe == yy - era * 400
        mp  == IF m > 2 THEN m - 3 ELSE m + 9
        doy == (153 * mp + 2) \div 5 + d - 1
        doe == yoe * 365 + yoe \div 4 - yoe \div 100 + doy
    IN  era * 146097 + doe - 719468

\* The civil date of a day number.
civil_from_days(z) ==
    LET zz  == z + 719468
        era == zz \div 146097
        doe == zz - era * 146097
        yoe == (doe - doe \div 1460 + doe \div 36524 - doe \div 146096) \div 365
        doy == doe - (365 * yoe + yoe \div 4 - yoe \div 100)
        mp  == (5 * doy + 2) \div 153
        d   == doy - (153 * mp + 2) \div 5 + 1
        m   == IF mp < 10 THEN mp + 3 ELSE mp - 9
        y   == yoe + era * 400 + (IF m <= 2 THEN 1 ELSE 0)
    IN  [year |-> y, month |-> m, day |-> d]

\* Number of ISO weeks of year y (52 or 53).
iso_weeks_in_year(y) ==
    LET p(n) == (n + n \div 4 - n \div 100 + n \div 400) % 7
    IN  IF p(y) = 4 \/ p(y - 1) = 3 THEN 53 ELSE 52

\* get_timestamp: datetime.fromtimestamp(ts / 1000.0) in the host's zone,
\* stored as a timestamp column; the calendar functions read it in that zone.
get_timestamp(x, zone) ==
    LET local == x.s + zone * 3600
    IN  [days |-> local \div 86400, secs |-> local % 86400, micros |-> x.ms * 1000]

hour(t) == t.secs \div 3600
dayofmonth(t) == civil_from_days(t.days).day
month(t) == civil_from_days(t.days).month
year(t) == civil_from_days(t.days).year

\* datetime.weekday(): Monday is 0.  1970-01-01 was a Thursday.
weekday_of(t) == (t.days + 3) % 7

\* weekDay: a udf without a return type, so Spark stores the result as a string.
weekDay(t) == ToString(weekday_of(t))

\* weekofyear: the ISO 8601 week number.
weekofyear(t) ==
    LET y   == year(t)
        doy == t.days - days_from_civil(y, 1, 1) + 1
        w   == (doy - (weekday_of(t) + 1) + 10) \div 7
    IN  IF w < 1 THEN iso_weeks_in_year(y - 1)
        ELSE IF w > iso_weeks_in_year(y) THEN 1
        ELSE w

\* ------------------------------------------------------------ state
VARIABLES
    song_data,    \* the raw catalog records under input_data (a bag of distinct records)
    log_data,     \* the raw log events under input_data (a bag of distinct events)
    tz,           \* the host's time zone, hours from UTC
    pc,           \* where main stands
    run,          \* invocations of main so far
    err,          \* why the run failed, "none" while it has not
    songplays,    \* songplays_table with its ids, in row order
    out,          \* the five destinations under output_data
    published,    \* history: each destination's last successfully written content
    prev_out,     \* history: the destinations as the previous run left them
                  \* when it completed, songplay_id aside
    prev_done     \* history: whether the previous run completed

vars == <<song_data, log_data, tz, pc, run, err, songplays, out, published, prev_out, prev_done>>

Tables == {"songs", "artists", "users", "time", "songplays"}

Absent == [exists |-> FALSE, rows |-> EmptyBag]

\* ------------------------------------------------------------ process_song_data
\* spark.read.json infers the schema from the records: with no record there is
\* no column, and the first select raises AnalysisException.
can_read(src) == src # EmptyBag

song_df == song_data

SongCols(r) ==
    [song_id |-> r.song_id, title |-> r.title, artist_id |-> r.artist_id,
     year |-> r.year, duration |-> r.duration]

\* dropDuplicates(["title"]): one row per title rather than per distinct row.
songs_table_by_title ==
    LET all == dropDuplicates(BagMap(song_df, [r \in DOMAIN song_df |-> SongCols(r)]))
        titles == {r.title : r \in DOMAIN all}
    IN  SetToBag({CHOOSE r \in DOMAIN all : r.title = t : t \in titles})

songs_table == dropDuplicates(BagMap(song_df, [r \in DOMAIN song_df |-> SongCols(r)]))

ArtistCols(r) ==
    [artist_id |-> r.artist_id, artist_name |-> r.artist_name,
     artist_location |-> r.artist_location, artist_latitude |-> r.artist_latitude,
     artist_longitude |-> r.artist_longitude]

ArtistRenamed(r) ==
    [artist_id |-> r.artist_id, name |-> r.artist_name, location |-> r.artist_location,
     latitude |-> r.artist_latitude, longitude |-> r.artist_longitude]

artists_table ==
    LET selected == dropDuplicates(BagMap(song_df, [r \in DOMAIN song_df |-> ArtistCols(r)]))
    IN  BagMap(selected, [r \in DOMAIN selected |-> ArtistRenamed(r)])

\* ------------------------------------------------------------ process_log_data
IsNextSong(e) == SqlEq(e.page, "NextSong")

\* A filter that keeps every event.
log_filter_all(df) == df

log_filter(df) == BagFilter(df, {e \in DOMAIN df : IsNextSong(e)})

log_df == log_filter(log_data)

UserCols(e) ==
    [userId |-> e.userId, firstName |-> e.firstName, lastName |-> e.lastName,
     gender |-> e.gender, level |-> e.level]

UserRenamed(r) ==
    [user_id |-> r.userId, first_name |-> r.firstName, last_name |-> r.lastName,
     gender |-> r.gender, level |-> r.level]

users_table ==
    LET selected == dropDuplicates(BagMap(log_df, [e \in DOMAIN log_df |-> UserCols(e)]))
    IN  BagMap(selected, [r \in DOMAIN selected |-> UserRenamed(r)])

\* The six calendar columns and new_timestamp, added to an event.
WithTimeCols(e) ==
    LET t == get_timestamp(e.ts, tz)
    IN  [new_timestamp |-> t, hour |-> hour(t), day |-> dayofmonth(t),
         week |-> weekofyear(t), month |-> month(t), year |-> year(t),
         weekday |-> weekDay(t)] @@ e

log_df_time == BagMap(log_df, [r \in DOMAIN log_df |-> WithTimeCols(r)])

TimeCols(r) ==
    [timestamp |-> r.ts, datetime |-> r.new_timestamp, hour |-> r.hour, day |-> r.day,
     week |-> r.week, month |-> r.month, year |-> r.year, weekday |-> r.weekday]

time_table == BagMap(log_df_time, [r \in DOMAIN log_df_time |-> TimeCols(r)])

JoinCols(r) ==
    [title |-> r.title, artist_name |-> r.artist_name, song_id |-> r.song_id,
     artist_id |-> r.artist_id]

\* The join's catalog side without dropDuplicates().
songs_df_all == BagMap(song_data, [r \in DOMAIN song_data |-> JoinCols(r)])

songs_df == dropDuplicates(BagMap(song_data, [r \in DOMAIN song_data |-> JoinCols(r)]))

\* A join on the title alone.
join_on_title(e, s) == SqlEq(e.song, s.title)

\* (log_df.song == songs_df.title) & (log_df.artist == songs_df.artist_name)
join_on(e, s) == SqlEq(e.song, s.title) /\ SqlEq(e.artist, s.artist_name)

\* The inner join: one row per matching pair, as often as the pair occurs.
songplays_df ==
    LET pairs == {p \in (DOMAIN log_df_time) \X (DOMAIN songs_df) : join_on(p[1], p[2])}
    IN  [p \in pairs |-> log_df_time[p[1]] * songs_df[p[2]]]

SongplayCols(p) ==
    [start_time |-> p[1].ts, year |-> p[1].year, month |-> p[1].month,
     user_id |-> p[1].userId, level |-> p[1].level, song_id |-> p[2].song_id,
     artist_id |-> p[2].artist_id, session_id |-> p[1].sessionId,
     location |-> p[1].location, user_agent |-> p[1].userAgent]

songplays_table == BagMap(songplays_df, [r \in DOMAIN songplays_df |-> SongplayCols(r)])

\* ------------------------------------------------------------ songplay_id
RECURSIVE SumTo(_, _)
SumTo(f, n) == IF n = 0 THEN 0 ELSE f[n] + SumTo(f, n - 1)

\* The ways to cut n rows into MaxPartitions consecutive partitions (some empty).
Splits(n) == {c \in [1..MaxPartitions -> 0..n] : SumTo(c, MaxPartitions) = n}

\* The rows of s cut into partitions of the sizes c.
Partitioned(s, c) ==
    [p \in 1..MaxPartitions |-> SubSeq(s, SumTo(c, p - 1) + 1, SumTo(c, p))]

\* An id that counts rows inside the partition and forgets the partition.
row_number_in_partition(p, i) == [part |-> 0, row |-> i - 1]

\* monotonically_increasing_id(): the partition index in the upper 31 bits and
\* the row's position inside its partition in the lower 33 bits.
monotonically_increasing_id(p, i) == [part |-> p - 1, row |-> i - 1]

\* id a is below id b (as 64-bit integers: part * 2^33 + row, row < 2^33).
IdLess(a, b) == a.part < b.part \/ (a.part = b.part /\ a.row < b.row)

RECURSIVE Flatten(_, _)
Flatten(parts, n) == IF n = 0 THEN <<>> ELSE Flatten(parts, n - 1) \o parts[n]

\* withColumn("songplay_id", ...) over the partitions, then the frame in row order.
with_songplay_id(parts) ==
    Flatten([p \in 1..MaxPartitions |->
               [i \in 1..Len(parts[p]) |->
                  [songplay_id |-> monotonically_increasing_id(p, i)] @@ parts[p][i]]],
            MaxPartitions)

\* ------------------------------------------------------------ writes
\* partitionBy: the partition directory a row of table t is written to.
partition_key(t, r) ==
    CASE t = "songs" -> <<r.year, r.artist_id>>
      [] t \in {"time", "songplays"} -> <<r.year, r.month>>
      [] OTHER -> <<>>

\* mode("append"): the new content is added to the old.
append(old, new) == [exists |-> TRUE, rows |-> old.rows (+) new]

\* mode("overwrite"): the destination's old content is deleted, then the new
\* content is written.
overwrite(old, new) == [exists |-> TRUE, rows |-> new]

\* The destination after a write of `new` to table t that failed.  The save
\* modes are not atomic: the failure comes before the old content is deleted,
\* or after it with some but not all partition directories written.
failed_write(t, old, new) ==
    LET keys == {partition_key(t, r) : r \in DOMAIN new}
        InDirs(K) == BagFilter(new, {r \in DOMAIN new : partition_key(t, r) \in K})
    IN  {old} \cup {[exists |-> TRUE, rows |-> InDirs(K)] : K \in (SUBSET keys) \ {keys}}

\* The frame each write step writes.
frame(t) ==
    CASE t = "songs" -> songs_table
      [] t = "artists" -> artists_table
      [] t = "users" -> users_table
      [] t = "time" -> time_table
      [] t = "songplays" -> SeqToBag(songplays)

\* The step of main that writes table t, and the step after it.
write_pc(t) ==
    CASE t = "songs" -> "write_songs"
      [] t = "artists" -> "write_artists"
      [] t = "users" -> "write_users"
      [] t = "time" -> "write_time"
      [] t = "songplays" -> "write_songplays"

next_pc(t) ==
    CASE t = "songs" -> "write_artists"
      [] t = "artists" -> "read_log"
      [] t = "users" -> "write_time"
      [] t = "time" -> "join"
      [] t = "songplays" -> "done"

\* A table's rows without the songplay_id column (songplays alone has it).
DropId(r) == [c \in DOMAIN r \ {"songplay_id"} |-> r[c]]

without_id(d) == [exists |-> d.exists, rows |-> BagMap(d.rows, [r \in DOMAIN d.rows |-> DropId(r)])]

\* ------------------------------------------------------------ actions
NoOut == [t \in Tables |-> Absent]

Init ==
    /\ song_data \in FramesUpTo(CatalogRecords, MaxSongs)
    /\ log_data \in FramesUpTo(LogEvents, MaxEvents)
    /\ tz \in TimeZones
    /\ pc = "idle"
    /\ run = 0
    /\ err = "none"
    /\ songplays = <<>>
    /\ out = NoOut
    /\ published = NoOut
    /\ prev_out = NoOut
    /\ prev_done = FALSE

\* main is invoked: the first run, or a re-run on the same snapshot after a
\* run that completed or failed.
StartRun ==
    /\ pc \in {"idle", "done", "failed"}
    /\ run < MaxRuns
    /\ run' = run + 1
    /\ pc' = "read_songs"
    /\ songplays' = <<>>
    /\ prev_out' = IF pc = "done" THEN [t \in Tables |-> without_id(out[t])] ELSE NoOut
    /\ prev_done' = (pc = "done")
    /\ err' = "none"
    /\ UNCHANGED <<song_data, log_data, tz, out, published>>

\* process_song_data: read the catalog and select the song columns.
ReadSongData ==
    /\ pc = "read_songs"
    /\ IF can_read(song_data)
       THEN pc' = "write_songs" /\ err' = err
       ELSE pc' = "failed" /\ err' = "AnalysisException"
    /\ UNCHANGED <<song_data, log_data, tz, run, songplays, out, published, prev_out, prev_done>>

\* process_log_data: read the log and filter it.
ReadLogData ==
    /\ pc = "read_log"
    /\ IF can_read(log_data)
       THEN pc' = "write_users" /\ err' = err
       ELSE pc' = "failed" /\ err' = "AnalysisException"
    /\ UNCHANGED <<song_data, log_data, tz, run, songplays, out, published, prev_out, prev_done>>

\* A table write that succeeds.
Write(t) ==
    /\ pc = write_pc(t)
    /\ out' = [out EXCEPT ![t] = overwrite(out[t], frame(t))]
    /\ published' = [published EXCEPT ![t] = out'[t]]
    /\ pc' = next_pc(t)
    /\ UNCHANGED <<song_data, log_data, tz, run, err, songplays, prev_out, prev_done>>

\* A table write that raises: the exception leaves main, nothing else runs.
WriteError(t) ==
    /\ pc = write_pc(t)
    /\ \E left \in failed_write(t, out[t], frame(t)) :
          out' = [out EXCEPT ![t] = left]
    /\ pc' = "failed"
    /\ err' = "WriteError"
    /\ UNCHANGED <<song_data, log_data, tz, run, songplays, published, prev_out, prev_done>>

\* The second read of the catalog, the join, the projection and the id column.
JoinSongplays ==
    /\ pc = "join"
    /\ LET rows == BagToSeq(songplays_table)
       IN  \E c \in Splits(Len(rows)) :
              songplays' = with_songplay_id(Partitioned(rows, c))
    /\ pc' = "write_songplays"
    /\ UNCHANGED <<song_data, log_data, tz, run, err, out, published, prev_out, prev_done>>

Next ==
    \/ StartRun
    \/ ReadSongData
    \/ ReadLogData
    \/ JoinSongplays
    \/ \E t \in Tables : Write(t)
    \/ \E t \in Tables : WriteError(t)

Spec == Init /\ [][Next]_vars

\* ------------------------------------------------------------ claims
Rows(t) == out[t].rows

Retained == {e \in DOMAIN log_data : e.page = "NextSong"}

\* The catalog's distinct (title, artist_name, song_id, artist_id) tuples that
\* agree with event e on title and artist name.
Matches(e) ==
    {JoinCols(c) : c \in {x \in DOMAIN song_data :
                            x.title = e.song /\ x.artist_name = e.artist}}

\* The songplays rows of a frame that come from event e.
FromEvent(B, e) ==
    {r \in DOMAIN B : /\ r.start_time = e.ts
                      /\ r.session_id = e.sessionId
                      /\ r.user_id = e.userId
                      /\ r.level = e.level}

\* C1: after a complete run the Time table holds exactly one row for every
\* distinct ts of the retained (page = "NextSong") events, and no other row.
C1_OneTimeRowPerTs ==
    pc = "done" =>
        /\ \A e \in Retained :
              SumCounts(Rows("time"), {r \in DOMAIN Rows("time") : r.timestamp = e.ts}) = 1
        /\ \A r \in DOMAIN Rows("time") : \E e \in Retained : r.timestamp = e.ts

\* C2: every row of the User, Time and Songplay destinations derives from an
\* event whose page is exactly "NextSong"; an event with another page adds
\* no row (Time holds no more rows than there are retained events).
C2_FilterCorrect ==
    /\ \A r \in DOMAIN Rows("users") :
          \E e \in Retained : r = UserRenamed(UserCols(e))
    /\ \A r \in DOMAIN Rows("time") :
          \E e \in Retained : r = TimeCols(WithTimeCols(e))
    /\ \A r \in DOMAIN Rows("songplays") :
          \E e \in Retained : r \in FromEvent(Rows("songplays"), e)
    /\ BagCardinality(Rows("time")) <= Cardinality(Retained)

\* C2 witness: a completed run over a log holding a page view and a song play.
C2_Witness ==
    /\ pc = "done"
    /\ \E e \in DOMAIN log_data : e.page # "NextSong"
    /\ Retained # {}
    /\ Rows("users") # EmptyBag
    /\ Rows("time") # EmptyBag

\* C3: a Songplay row exists only for an event and a catalog record that agree
\* exactly on (song, artist) = (title, artist_name), and it carries that
\* record's ids, never null; after a complete run a retained event without
\* such a record has no Songplay row at all.
C3_InnerJoin ==
    /\ \A r \in DOMAIN Rows("songplays") :
          /\ r.song_id # Null
          /\ r.artist_id # Null
          /\ \E e \in Retained : \E c \in DOMAIN song_data :
                /\ c.title = e.song
                /\ c.artist_name = e.artist
                /\ r.song_id = c.song_id
                /\ r.artist_id = c.artist_id
                /\ r \in FromEvent(Rows("songplays"), e)
    /\ pc = "done" =>
          \A e \in Retained :
              Matches(e) = {} => FromEvent(Rows("songplays"), e) = {}

\* C3 witness: a completed run with a Songplay row, over a log holding a song
\* play that matches a catalog title but no artist name.
C3_Witness ==
    /\ pc = "done"
    /\ Rows("songplays") # EmptyBag
    /\ \E e \in Retained :
          /\ Matches(e) = {}
          /\ \E c \in DOMAIN song_data : c.title = e.song

\* C4: after a complete run every Songplay row's song_id is the song_id of a
\* Song row and its artist_id the artist_id of an Artist row.
C4_JoinSound ==
    pc = "done" =>
        \A r \in DOMAIN Rows("songplays") :
            /\ \E s \in DOMAIN Rows("songs") : s.song_id = r.song_id
            /\ \E a \in DOMAIN Rows("artists") : a.artist_id = r.artist_id

\* C4 witness: a completed run whose Songplay rows name two different songs.
C4_Witness ==
    /\ pc = "done"
    /\ \E r1, r2 \in DOMAIN Rows("songplays") : r1.song_id # r2.song_id

\* C5: the Song, Artist and User destinations never hold a row twice; a
\* written table holds every distinct projected row of its input (rows that
\* differ in any column are all kept); dedup of a written table changes nothing.
C5_FullRowDedup ==
    /\ \A t \in {"songs", "artists", "users"} :
          /\ \A r \in DOMAIN Rows(t) : Rows(t)[r] = 1
          /\ dropDuplicates(Rows(t)) = Rows(t)
    /\ published["songs"].exists =>
          DOMAIN published["songs"].rows = {SongCols(c) : c \in DOMAIN song_data}
    /\ published["artists"].exists =>
          DOMAIN published["artists"].rows =
              {ArtistRenamed(ArtistCols(c)) : c \in DOMAIN song_data}
    /\ published["users"].exists =>
          DOMAIN published["users"].rows = {UserRenamed(UserCols(e)) : e \in Retained}

\* C5 witness: a completed run where the catalog repeats a song row, and the
\* User table holds one user_id with two levels.
C5_Witness ==
    /\ pc = "done"
    /\ BagCardinality(BagMap(song_data, [r \in DOMAIN song_data |-> SongCols(r)])) > BagCardinality(Rows("songs"))
    /\ \E u1, u2 \in DOMAIN Rows("users") : u1.user_id = u2.user_id /\ u1.level # u2.level

\* C6: songplay_id is strictly increasing along the rows of the songplays
\* frame, so no two rows share one, however the rows fall into partitions;
\* the Songplay destination holds no id twice.
C6_IdsIncrease ==
    /\ \A i, j \in 1..Len(songplays) :
          i < j => IdLess(songplays[i].songplay_id, songplays[j].songplay_id)
    /\ \A r \in DOMAIN Rows("songplays") :
          /\ Rows("songplays")[r] = 1
          /\ \A q \in DOMAIN Rows("songplays") :
                q.songplay_id = r.songplay_id => q = r

\* C6 witness: two written Songplay rows with the same start_time that came
\* from different partitions.
C6_Witness ==
    /\ pc = "done"
    /\ \E r, q \in DOMAIN Rows("songplays") :
          /\ r.start_time = q.start_time
          /\ r.session_id # q.session_id
          /\ r.songplay_id.part # q.songplay_id.part

\* C7: when a run completes right after a completed run on the same input,
\* every destination holds what that run left (songplay_id aside).
C7_RerunSame ==
    (pc = "done" /\ prev_done) =>
        \A t \in Tables : without_id(out[t]) = prev_out[t]

\* C7 witness: a run completed right after a completed run, with rows in all
\* five destinations.
C7_Witness ==
    /\ pc = "done"
    /\ prev_done
    /\ \A t \in Tables : Rows(t) # EmptyBag

\* C8: after a failed run every destination holds the complete content of an
\* earlier successful write, or nothing.
C8_NoPartialCommit ==
    pc = "failed" =>
        \A t \in Tables : out[t] = published[t] \/ Rows(t) = EmptyBag

\* C9: a run over an empty catalog, or over a log without retained events,
\* does not fail for that reason: it fails only when a write raises.
C9_EmptyInputNoError ==
    (pc = "failed" /\ (song_data = EmptyBag \/ Retained = {})) => err = "WriteError"

\* C10: after a complete run each retained event has exactly as many Songplay
\* rows as the catalog has distinct (title, artist_name, song_id, artist_id)
\* tuples agreeing with it on title and artist name.
C10_Multiplicity ==
    pc = "done" =>
        \A e \in Retained :
            SumCounts(Rows("songplays"), FromEvent(Rows("songplays"), e))
                = Cardinality(Matches(e))

\* C10 witness: a completed run where an event matches two id pairs, one of
\* them repeated by two raw catalog records, and has two Songplay rows.
C10_Witness ==
    /\ pc = "done"
    /\ \E e \in Retained :
          /\ Cardinality(Matches(e)) = 2
          /\ Cardinality({c \in DOMAIN song_data :
                            c.title = e.song /\ c.artist_name = e.artist}) = 3
          /\ Cardinality(FromEvent(Rows("songplays"), e)) = 2

====
